---- MODULE Spec2Model ----
(***************************************************************************)
(* State-machine model of the single-node ledger service in src/app.py:   *)
(* the Blockchain object (chain, pending pool, persisted file), the two    *)
(* writing HTTP handlers (/mine, /transactions/new) executed by one        *)
(* thread per request, the proof-of-work search and the JSON save/load,    *)
(* the two reading handlers (/chain, /transactions), the background       *)
(* thread save_periodically with the signal handler, and the restart of   *)
(* the process on the file a previous run left.                           *)
(*                                                                         *)
(* Python lists are objects: a Block holds a REFERENCE to the list that    *)
(* was the pending pool when it was built (app.py:55), so the model keeps  *)
(* a heap of lists and blocks/pool hold indexes into it.                   *)
(*                                                                         *)
(* Abstractions, stated once:                                              *)
(*  - SHA-256 over a block (Blockchain.hash) is modelled as a collision-   *)
(*    free digest: the canonical serialization itself, tagged.             *)
(*  - SHA-256 inside valid_proof must yield concrete leading characters,   *)
(*    so it is a scaled-down rolling hash with a binary digest alphabet;   *)
(*    the difficulty test guess_hash[:4] == "0000" is kept literally.      *)
(*  - JSON text is a sequence of tokens (brackets, strings, numbers);      *)
(*    separators and indentation are not represented.                      *)
(***************************************************************************)
EXTENDS Integers, Sequences, FiniteSets, TLC

VARIABLES
    server,                \* [threaded: requests run concurrently, budget: the
                           \*  number of accepted requests the model follows]
    phase,                 \* "boot" before Blockchain() has run, then "running"
    chain,                 \* blockchain.chain: sequence of Block objects
    lists,                 \* heap of Python list objects (each a sequence of Transaction)
    current_transactions,  \* blockchain.current_transactions: reference into lists
    file,                  \* blockchain.json: [exists, data (token sequence)]
    clock,                 \* last value read from time.time()
    ntx,                   \* number of Transaction objects created (object identity)
    th,                    \* per request thread: program position, locals, and
                           \* (history) the state its request arrived in
    response,              \* the response sent last
    arrival,               \* history: the request received last
    acked,                 \* history: answered submits, [id, block number told]
    nreq,                  \* history: number of requests accepted so far
    pw,                    \* proof-of-work harness: [phase, last_proof, proof]
    rt,                    \* save/load harness: [phase, original]
    bg,                    \* the save_periodically thread: position and locals
    shutdown_event,        \* threading.Event: TRUE once set
    sig,                   \* signal_handler on the main thread: position and locals
    dump,                  \* transaction_dump.json: [exists, data]
    read_result,           \* history: the read answered last, [kind, body, nreq]
    prior                  \* history: what the previous run of the process held
                           \* when it stopped, [runs, chain, pending, synced]

vars == <<server, phase, chain, lists, current_transactions, file, clock, ntx, th,
          response, arrival, acked, nreq, pw, rt, bg, shutdown_event, sig, dump,
          read_result, prior>>

----------------------------------------------------------------------------
(* Bounds of the model *)

MaxRequests == 2
MaxSeqRequests == 3
MaxBurstRequests == 3
MaxLastProof == 60
MaxPowRounds == 1
MaxRTBlocks == 2
MaxReadRequests == 1
MaxReadSeqRequests == 2
MaxBgRequests == 1
MaxRestartRequests == 2
MaxRestarts == 1

Threads == {1, 2}
MineNames == {"bob"}
TxBodies == {[sender |-> "A", recipient |-> "B", amount |-> 10]}

----------------------------------------------------------------------------
(* Program constants *)

GenesisProof == 100
RewardAmount == 1
Difficulty == 4
RewardSender == "fbank_blockchain"
GenesisPreviousHash == "1"

(* parameters of the scaled-down digest standing in for hashlib.sha256 *)
DigestBits == 8
HashSeed == 16
HashMult == 247

----------------------------------------------------------------------------
(* Decimal formatting and the digest used by valid_proof *)

RECURSIVE Digits(_)
\* str(n) for a non-negative integer: its decimal digits, most significant first
Digits(n) == IF n < 10 THEN <<n>> ELSE Append(Digits(n \div 10), n % 10)

\* f"{last_proof}{proof}".encode(): the ASCII codes of the two decimal strings
Guess(last_proof, proof) ==
    LET s == Digits(last_proof) \o Digits(proof)
    IN  [i \in 1..Len(s) |-> 48 + s[i]]

RECURSIVE Pow2(_)
Pow2(k) == IF k = 0 THEN 1 ELSE 2 * Pow2(k - 1)

RECURSIVE sha256(_, _)
\* digest state after absorbing bytes[1..k]
sha256(bytes, k) ==
    IF k = 0 THEN HashSeed
    ELSE ((sha256(bytes, k - 1) + bytes[k]) * HashMult) % Pow2(DigestBits)

\* .hexdigest(): the digest as a string of DigestBits characters "0"/"1"
hexdigest(h) ==
    [i \in 1..DigestBits |->
        IF (h \div Pow2(DigestBits - i)) % 2 = 0 THEN "0" ELSE "1"]

ZeroPrefix == [i \in 1..Difficulty |-> "0"]

valid_proof(last_proof, proof) ==
    LET guess == Guess(last_proof, proof)
        guess_hash == hexdigest(sha256(guess, Len(guess)))
    IN  SubSeq(guess_hash, 1, Difficulty) = ZeroPrefix

RECURSIVE pow_search(_, _)
\* the while loop of proof_of_work, entered with the current candidate
pow_search(last_proof, proof) ==
    IF valid_proof(last_proof, proof) THEN proof
    ELSE pow_search(last_proof, proof + 1)

\* variant: the search starts at 1
proof_of_work_from1(last_proof) == pow_search(last_proof, 1)

proof_of_work(last_proof) == pow_search(last_proof, 0)

----------------------------------------------------------------------------
(* Objects: Transaction, Block, and their dict forms *)

\* Transaction(sender, recipient, amount); id stands for the object's identity
Transaction(id, sender, recipient, amount) ==
    [id |-> id, sender |-> sender, recipient |-> recipient, amount |-> amount]

\* Transaction.to_dict: self.__dict__, the three fields
Transaction_to_dict(tx) ==
    [sender |-> tx.sender, recipient |-> tx.recipient, amount |-> tx.amount]

\* Block(index, timestamp, transactions, proof, previous_hash);
\* transactions is a reference to a list object of the heap
Block(index, timestamp, transactions, proof, previous_hash) ==
    [index |-> index, timestamp |-> timestamp, transactions |-> transactions,
     proof |-> proof, previous_hash |-> previous_hash]

NoBlock == Block(0, 0, 0, 0, "")

\* Block.to_dict, reading the block's transaction list as it is now in heap
Block_to_dict(block, heap) ==
    LET txs == heap[block.transactions]
    IN  [index |-> block.index,
         timestamp |-> block.timestamp,
         transactions |-> [i \in 1..Len(txs) |-> Transaction_to_dict(txs[i])],
         proof |-> block.proof,
         previous_hash |-> block.previous_hash]

\* json.dumps(d, sort_keys=True) of a block dict: the canonical text, keys in
\* lexicographic order
json_dumps_sorted(d) ==
    "{index: " \o ToString(d.index)
    \o ", previous_hash: " \o d.previous_hash
    \o ", proof: " \o ToString(d.proof)
    \o ", timestamp: " \o ToString(d.timestamp)
    \o ", transactions: " \o ToString(d.transactions) \o "}"

\* Blockchain.hash: sha256 of the canonical text, as a collision-free digest
hash(block, heap) == "sha256" \o json_dumps_sorted(Block_to_dict(block, heap))

\* [block.to_dict() for block in self.chain]
chain_data(ch, heap) == [i \in 1..Len(ch) |-> Block_to_dict(ch[i], heap)]

\* [tx.to_dict() for tx in <list>]
txs_data(txs) == [i \in 1..Len(txs) |-> Transaction_to_dict(txs[i])]

----------------------------------------------------------------------------
(* JSON text as a token sequence, json.dump and json.load *)

Punct(p) == [t |-> p, n |-> 0, s |-> ""]
Num(n) == [t |-> "num", n |-> n, s |-> ""]
Str(s) == [t |-> "str", n |-> 0, s |-> s]

json_dump_tx(d) ==
    << Punct("{"),
       Str("sender"), Str(d.sender),
       Str("recipient"), Str(d.recipient),
       Str("amount"), Num(d.amount),
       Punct("}") >>

RECURSIVE json_dump_txs(_, _)
\* the elements d[k..] of a list of transaction dicts
json_dump_txs(d, k) ==
    IF k > Len(d) THEN <<>> ELSE json_dump_tx(d[k]) \o json_dump_txs(d, k + 1)

json_dump_block(d) ==
    << Punct("{"),
       Str("index"), Num(d.index),
       Str("timestamp"), Num(d.timestamp),
       Str("transactions"), Punct("[") >>
    \o json_dump_txs(d.transactions, 1) \o
    << Punct("]"),
       Str("proof"), Num(d.proof),
       Str("previous_hash"), Str(d.previous_hash),
       Punct("}") >>

RECURSIVE json_dump_blocks(_, _)
json_dump_blocks(d, k) ==
    IF k > Len(d) THEN <<>> ELSE json_dump_block(d[k]) \o json_dump_blocks(d, k + 1)

\* json.dump(chain_data, f): a top-level array of block objects
json_dump(data) == <<Punct("[")>> \o json_dump_blocks(data, 1) \o <<Punct("]")>>

\* the parser gives up: json.JSONDecodeError
JSONDecodeError == [ok |-> FALSE, v |-> <<>>, next |-> 0]

RECURSIVE json_value(_, _), json_array(_, _, _), json_object(_, _, _)
\* json.load's parser: the value starting at toks[i] and the position after
\* it, or JSONDecodeError when the text ends early or a token is out of place
json_value(toks, i) ==
    IF i > Len(toks) THEN JSONDecodeError
    ELSE CASE toks[i].t = "num" -> [ok |-> TRUE, v |-> toks[i].n, next |-> i + 1]
           [] toks[i].t = "str" -> [ok |-> TRUE, v |-> toks[i].s, next |-> i + 1]
           [] toks[i].t = "[" -> json_array(toks, i + 1, <<>>)
           [] toks[i].t = "{" -> json_object(toks, i + 1, <<>>)
           [] OTHER -> JSONDecodeError

json_array(toks, i, acc) ==
    IF i > Len(toks) THEN JSONDecodeError
    ELSE IF toks[i].t = "]" THEN [ok |-> TRUE, v |-> acc, next |-> i + 1]
    ELSE LET e == json_value(toks, i)
         IN  IF e.ok THEN json_array(toks, e.next, Append(acc, e.v))
             ELSE JSONDecodeError

json_object(toks, i, acc) ==
    IF i > Len(toks) THEN JSONDecodeError
    ELSE IF toks[i].t = "}" THEN [ok |-> TRUE, v |-> acc, next |-> i + 1]
    ELSE IF toks[i].t # "str" THEN JSONDecodeError
    ELSE LET e == json_value(toks, i + 1)
         IN  IF e.ok THEN json_object(toks, e.next, (toks[i].s :> e.v) @@ acc)
             ELSE JSONDecodeError

\* json.load(f): one value and nothing after it ("Extra data" otherwise)
json_load(toks) ==
    LET r == json_value(toks, 1)
    IN  IF r.ok /\ r.next = Len(toks) + 1
        THEN [raised |-> FALSE, v |-> r.v]
        ELSE [raised |-> TRUE, v |-> <<>>]

----------------------------------------------------------------------------
(* Blockchain.load_from_file *)

RECURSIVE load_txs(_, _, _)
\* [Transaction(**tx) for tx in block_data["transactions"]], new objects
\* numbered from id0 + 1
load_txs(d, k, id0) ==
    IF k > Len(d) THEN <<>>
    ELSE <<Transaction(id0 + k, d[k]["sender"], d[k]["recipient"], d[k]["amount"])>>
         \o load_txs(d, k + 1, id0)

RECURSIVE load_blocks_skip_empty(_, _, _)
\* variant: a block without transactions is not rebuilt
load_blocks_skip_empty(data, k, acc) ==
    IF k > Len(data) THEN acc
    ELSE LET bd == data[k]
             txs == load_txs(bd["transactions"], 1, acc.ntx)
             heap == Append(acc.lists, txs)
             block == Block(bd["index"], bd["timestamp"], Len(heap),
                            bd["proof"], bd["previous_hash"])
         IN  IF Len(txs) = 0
             THEN load_blocks_skip_empty(data, k + 1, acc)
             ELSE load_blocks_skip_empty(data, k + 1,
                                         [chain |-> Append(acc.chain, block),
                                          lists |-> heap,
                                          ntx |-> acc.ntx + Len(txs)])

RECURSIVE load_blocks(_, _, _)
\* the for loop over chain_data[k..]; acc is [chain, lists, ntx] so far
load_blocks(data, k, acc) ==
    IF k > Len(data) THEN acc
    ELSE LET bd == data[k]
             txs == load_txs(bd["transactions"], 1, acc.ntx)
             heap == Append(acc.lists, txs)
             block == Block(bd["index"], bd["timestamp"], Len(heap),
                            bd["proof"], bd["previous_hash"])
         IN  load_blocks(data, k + 1,
                         [chain |-> Append(acc.chain, block),
                          lists |-> heap,
                          ntx |-> acc.ntx + Len(txs)])

BlockKeys == {"index", "timestamp", "transactions", "proof", "previous_hash"}
TxKeys == {"sender", "recipient", "amount"}

\* block_data[...] finds its five keys (KeyError otherwise) and
\* Transaction(**tx) gets exactly its three arguments (TypeError otherwise),
\* for a parsed array of objects
block_data_ok(data) ==
    \A k \in 1..Len(data) :
        /\ BlockKeys \subseteq DOMAIN data[k]
        /\ \A i \in 1..Len(data[k]["transactions"]) :
              DOMAIN data[k]["transactions"][i] = TxKeys

\* the outcome of load_from_file: the object's state and whether it raised
Loaded(acc, raised) ==
    [chain |-> acc.chain, lists |-> acc.lists, ntx |-> acc.ntx, raised |-> raised]

\* variant: an exception while loading is swallowed, nothing is loaded
load_from_file_lenient(f, acc) ==
    IF ~f.exists THEN Loaded(acc, FALSE)
    ELSE LET r == json_load(f.data)
         IN  IF r.raised THEN Loaded(acc, FALSE)
             ELSE IF ~block_data_ok(r.v) THEN Loaded(acc, FALSE)
             ELSE Loaded(load_blocks(r.v, 1, acc), FALSE)

\* load_from_file on an object whose state is acc = [chain, lists, ntx]
load_from_file(f, acc) ==
    IF ~f.exists THEN Loaded(acc, FALSE)
    ELSE LET r == json_load(f.data)
         IN  IF r.raised THEN Loaded(acc, TRUE)
             ELSE IF ~block_data_ok(r.v) THEN Loaded(acc, TRUE)
             ELSE Loaded(load_blocks(r.v, 1, acc), FALSE)

\* the content save_to_file writes for a chain
save_data(ch, heap) == json_dump(chain_data(ch, heap))

\* writing w from offset 0 into a file holding old (open mode "w" truncated it
\* when this writer opened it; another writer may have written since)
file_write(old, w) == w \o SubSeq(old, Len(w) + 1, Len(old))

----------------------------------------------------------------------------
(* Request threads *)

NoTx == Transaction(0, "", "", 0)
NoResponse ==
    [status |-> 0, index |-> 0, transactions |-> <<>>, proof |-> 0,
     previous_hash |-> ""]
Response400 == [NoResponse EXCEPT !.status = 400]
Response500 == [NoResponse EXCEPT !.status = 500]
NoBody == <<>>
NoPre == [chain |-> <<>>, pending |-> <<>>, last |-> ""]

IdleThread ==
    [pc |-> "idle", kind |-> "none", values |-> NoBody,
     last_block |-> NoBlock, proof |-> 0, tx |-> NoTx, ref |-> 0,
     snap |-> <<>>, after |-> "", previous_hash |-> "", index |-> 0,
     timestamp |-> 0, block |-> NoBlock, pre |-> NoPre, got |-> <<>>]

Free(t) == th[t].pc = "idle"

NoRequestRunning == \A u \in Threads : Free(u)

\* a new request runs on the first free thread; a server that is not threaded
\* takes the next request when the previous one is answered
Spawn(t) ==
    /\ phase = "running"
    /\ Free(t) /\ \A u \in Threads : u < t => ~Free(u)
    /\ server.threaded \/ NoRequestRunning

\* the model follows a bounded number of accepted requests
Budget == nreq < server.budget

\* blockchain.last_block
last_block == chain[Len(chain)]

\* a request as it arrives
Arrival(kind, values) == [kind |-> kind, values |-> values]

\* what the caller of a request could see when it arrived
PreState ==
    [chain |-> chain_data(chain, lists),
     pending |-> lists[current_transactions],
     last |-> hash(last_block, lists)]

MineBodies == {[name |-> n] : n \in MineNames}
BadMineBodies == {NoBody}
BadTxBodies ==
    {[sender |-> "A", recipient |-> "B"],
     [sender |-> "A", amount |-> 10],
     [recipient |-> "B", amount |-> 10]}

\* variant: any(...) in place of all(...)
has_required_any(values, required) == \E k \in required : k \in DOMAIN values

\* all(k in values for k in required)
has_required(values, required) == \A k \in required : k \in DOMAIN values

\* what the request handlers that write never touch
extras == <<bg, shutdown_event, sig, dump, read_result, prior>>
harness == <<pw, rt, extras>>
ledger == <<chain, lists, current_transactions, file>>

----------------------------------------------------------------------------
(* Construction: blockchain = Blockchain() *)

\* variant: a genesis block is made whatever was loaded
needs_genesis_always(ch) == Len(ch) >= 0

\* line 48: if len(self.chain) == 0
needs_genesis(ch) == Len(ch) = 0

\* variant: the two arguments exchanged
genesis_args_swapped == [proof |-> 1, previous_hash |-> "100"]

\* line 49: the arguments of the genesis new_block call
genesis_args == [proof |-> GenesisProof, previous_hash |-> GenesisPreviousHash]

Construct ==
    /\ phase = "boot"
    /\ LET heap0 == Append(lists, <<>>)            \* self.current_transactions = []
           cur0 == Len(heap0)
           loaded == load_from_file(file, [chain |-> <<>>, lists |-> heap0, ntx |-> ntx])
       IN  IF loaded.raised
           THEN \* line 46 raises: no Blockchain object, the module is not loaded
                /\ phase' = "aborted"
                /\ UNCHANGED <<ledger, clock, ntx>>
           ELSE IF needs_genesis(loaded.chain)
           THEN \* self.new_block(previous_hash="1", proof=100), lines 52-61
                LET block == Block(Len(loaded.chain) + 1, clock, cur0,
                                   genesis_args.proof, genesis_args.previous_hash)
                    heap1 == Append(loaded.lists, <<>>)
                    ch == Append(loaded.chain, block)
                IN  /\ chain' = ch
                    /\ lists' = heap1
                    /\ current_transactions' = Len(heap1)
                    /\ clock' = clock + 1
                    /\ file' = [exists |-> TRUE, data |-> save_data(ch, heap1)]
                    /\ ntx' = loaded.ntx
                    /\ phase' = "running"
           ELSE /\ chain' = loaded.chain
                /\ lists' = loaded.lists
                /\ current_transactions' = cur0
                /\ ntx' = loaded.ntx
                /\ phase' = "running"
                /\ UNCHANGED <<clock, file>>
    /\ UNCHANGED <<server, th, response, arrival, acked, nreq, harness>>

----------------------------------------------------------------------------
(* POST /mine: mine_block *)

\* lines 144-147: the body misses "name"
mine_block_reject(t) ==
    /\ Spawn(t)
    /\ \E values \in MineBodies \cup BadMineBodies :
         /\ ~has_required(values, {"name"})
         /\ arrival' = Arrival("mine", values)
    /\ response' = Response400
    /\ UNCHANGED <<server, phase, ledger, clock, ntx, th, acked, nreq, harness>>

\* lines 144-151: last_block = blockchain.last_block, and the proof search
mine_block_start(t) ==
    /\ Spawn(t) /\ Budget
    /\ \E values \in MineBodies \cup BadMineBodies :
         /\ has_required(values, {"name"})
         /\ arrival' = Arrival("mine", values)
         /\ th' = [th EXCEPT ![t] =
                     [IdleThread EXCEPT !.pc = "nt_load", !.kind = "mine",
                                        !.values = values,
                                        !.pre = PreState,
                                        !.last_block = last_block,
                                        !.proof = proof_of_work(last_block.proof)]]
    /\ nreq' = nreq + 1
    /\ UNCHANGED <<server, phase, ledger, clock, ntx, response, acked, harness>>

----------------------------------------------------------------------------
(* POST /transactions/new: new_transaction (the handler) *)

\* lines 172-175: the body misses a field
new_transaction_reject(t) ==
    /\ Spawn(t)
    /\ \E values \in TxBodies \cup BadTxBodies :
         /\ ~has_required(values, {"sender", "recipient", "amount"})
         /\ arrival' = Arrival("tx", values)
    /\ response' = Response400
    /\ UNCHANGED <<server, phase, ledger, clock, ntx, th, acked, nreq, harness>>

\* lines 172-175 passed: the handler goes on to blockchain.new_transaction
new_transaction_start(t) ==
    /\ Spawn(t) /\ Budget
    /\ \E values \in TxBodies \cup BadTxBodies :
         /\ has_required(values, {"sender", "recipient", "amount"})
         /\ arrival' = Arrival("tx", values)
         /\ th' = [th EXCEPT ![t] =
                     [IdleThread EXCEPT !.pc = "nt_load", !.kind = "tx",
                                        !.values = values, !.pre = PreState]]
    /\ nreq' = nreq + 1
    /\ UNCHANGED <<server, phase, ledger, clock, ntx, response, acked, harness>>

----------------------------------------------------------------------------
(* Blockchain.new_transaction, called by both handlers *)

\* the fields the caller reads from the request body (lines 154, 178)
tx_args(l) ==
    IF l.kind = "mine"
    THEN [need |-> {"name"},
          sender |-> RewardSender,
          recipient |-> IF "name" \in DOMAIN l.values THEN l.values["name"] ELSE "",
          amount |-> RewardAmount]
    ELSE [need |-> {"sender", "recipient", "amount"},
          sender |-> IF "sender" \in DOMAIN l.values THEN l.values["sender"] ELSE "",
          recipient |-> IF "recipient" \in DOMAIN l.values
                        THEN l.values["recipient"] ELSE "",
          amount |-> IF "amount" \in DOMAIN l.values THEN l.values["amount"] ELSE 0]

\* line 65 and the first half of line 66: the Transaction is built and the
\* reference self.current_transactions is loaded (a missing key raises
\* KeyError in the caller, which the server answers with 500)
nt_load(t) ==
    /\ th[t].pc = "nt_load"
    /\ LET l == th[t]
           a == tx_args(l)
       IN  IF ~(a.need \subseteq DOMAIN l.values)
           THEN /\ th' = [th EXCEPT ![t] = IdleThread]
                /\ response' = Response500
                /\ UNCHANGED ntx
           ELSE /\ th' = [th EXCEPT ![t] =
                            [l EXCEPT !.pc = "nt_append",
                                      !.tx = Transaction(ntx + 1, a.sender,
                                                         a.recipient, a.amount),
                                      !.ref = current_transactions]]
                /\ ntx' = ntx + 1
                /\ UNCHANGED response
    /\ UNCHANGED <<server, phase, ledger, clock, arrival, acked, nreq, harness>>

\* variant: the transaction is inserted at the head of the list
nt_append_front(t) ==
    /\ th[t].pc = "nt_append"
    /\ lists' = [lists EXCEPT ![th[t].ref] = <<th[t].tx>> \o @]
    /\ th' = [th EXCEPT ![t] = [@ EXCEPT !.pc = "save_open", !.after = "nt_return"]]
    /\ UNCHANGED <<server, phase, chain, current_transactions, file, clock, ntx,
                   response, arrival, acked, nreq, harness>>

\* second half of line 66: list.append on the loaded reference
nt_append(t) ==
    /\ th[t].pc = "nt_append"
    /\ lists' = [lists EXCEPT ![th[t].ref] = Append(@, th[t].tx)]
    /\ th' = [th EXCEPT ![t] = [@ EXCEPT !.pc = "save_open", !.after = "nt_return"]]
    /\ UNCHANGED <<server, phase, chain, current_transactions, file, clock, ntx, response,
                   arrival, acked, nreq, harness>>

\* line 68: return self.last_block.index + 1; the submit handler answers with
\* it (lines 181-182), the mine handler drops it and hashes its last_block
\* (line 157)
nt_return(t) ==
    /\ th[t].pc = "nt_return"
    /\ LET l == th[t]
           index == last_block.index + 1
       IN  IF l.kind = "tx"
           THEN /\ th' = [th EXCEPT ![t] = IdleThread]
                /\ response' = [NoResponse EXCEPT !.status = 201, !.index = index]
                /\ acked' = acked \cup {[id |-> l.tx.id, n |-> index]}
           ELSE /\ th' = [th EXCEPT ![t] =
                            [l EXCEPT !.pc = "nb_index",
                                      !.previous_hash = hash(l.last_block, lists)]]
                /\ UNCHANGED <<response, acked>>
    /\ UNCHANGED <<server, phase, ledger, clock, ntx, arrival, nreq, harness>>

----------------------------------------------------------------------------
(* Blockchain.save_to_file, called by new_transaction and new_block *)

\* lines 92-93: open(filename, "w") truncates; the chain is read
save_open(t) ==
    /\ th[t].pc = "save_open"
    /\ file' = [exists |-> TRUE, data |-> <<>>]
    /\ th' = [th EXCEPT ![t] = [@ EXCEPT !.pc = "save_write",
                                         !.snap = save_data(chain, lists)]]
    /\ UNCHANGED <<server, phase, chain, lists, current_transactions, clock, ntx, response,
                   arrival, acked, nreq, harness>>

\* line 94 and the close: the text reaches the file
save_write(t) ==
    /\ th[t].pc = "save_write"
    /\ file' = [exists |-> TRUE, data |-> file_write(file.data, th[t].snap)]
    /\ th' = [th EXCEPT ![t] = [@ EXCEPT !.pc = th[t].after, !.snap = <<>>,
                                         !.after = ""]]
    /\ UNCHANGED <<server, phase, chain, lists, current_transactions, clock, ntx, response,
                   arrival, acked, nreq, harness>>

----------------------------------------------------------------------------
(* Blockchain.new_block as the mine handler runs it (line 158) *)

\* lines 53-54: index = len(self.chain) + 1, timestamp = time.time()
nb_index(t) ==
    /\ th[t].pc = "nb_index"
    /\ th' = [th EXCEPT ![t] = [@ EXCEPT !.pc = "nb_txs",
                                         !.index = Len(chain) + 1,
                                         !.timestamp = clock]]
    /\ clock' = clock + 1
    /\ UNCHANGED <<server, phase, ledger, ntx, response, arrival, acked, nreq, harness>>

\* lines 55-58: transactions = self.current_transactions (the list itself),
\* previous_hash or self.hash(self.chain[-1]), and the Block is built
nb_txs(t) ==
    /\ th[t].pc = "nb_txs"
    /\ LET l == th[t]
           ph == IF l.previous_hash # "" THEN l.previous_hash
                 ELSE hash(last_block, lists)
       IN  th' = [th EXCEPT ![t] =
                    [l EXCEPT !.pc = "nb_reset",
                              !.block = Block(l.index, l.timestamp,
                                              current_transactions, l.proof, ph)]]
    /\ UNCHANGED <<server, phase, ledger, clock, ntx, response, arrival, acked, nreq,
                   harness>>

\* variant: the new list is not stored in self.current_transactions
nb_reset_keep(t) ==
    /\ th[t].pc = "nb_reset"
    /\ lists' = Append(lists, <<>>)
    /\ th' = [th EXCEPT ![t] = [@ EXCEPT !.pc = "nb_append"]]
    /\ UNCHANGED <<server, phase, chain, current_transactions, file, clock, ntx,
                   response, arrival, acked, nreq, harness>>

\* line 59: self.current_transactions = [], a new list object
nb_reset(t) ==
    /\ th[t].pc = "nb_reset"
    /\ lists' = Append(lists, <<>>)
    /\ current_transactions' = Len(lists) + 1
    /\ th' = [th EXCEPT ![t] = [@ EXCEPT !.pc = "nb_append"]]
    /\ UNCHANGED <<server, phase, chain, file, clock, ntx, response, arrival, acked, nreq,
                   harness>>

\* lines 60-61: self.chain.append(block), then save_to_file
nb_append(t) ==
    /\ th[t].pc = "nb_append"
    /\ chain' = Append(chain, th[t].block)
    /\ th' = [th EXCEPT ![t] = [@ EXCEPT !.pc = "save_open",
                                         !.after = "mine_respond"]]
    /\ UNCHANGED <<server, phase, lists, current_transactions, file, clock, ntx, response,
                   arrival, acked, nreq, harness>>

\* lines 160-167: the response, built from the block as it is now
mine_respond(t) ==
    /\ th[t].pc = "mine_respond"
    /\ LET b == th[t].block
       IN  response' = [status |-> 201,
                        index |-> b.index,
                        transactions |-> txs_data(lists[b.transactions]),
                        proof |-> b.proof,
                        previous_hash |-> b.previous_hash]
    /\ th' = [th EXCEPT ![t] = IdleThread]
    /\ UNCHANGED <<server, phase, ledger, clock, ntx, arrival, acked, nreq, harness>>

----------------------------------------------------------------------------
(* The service: construction, then one thread per request *)

NoFile == [exists |-> FALSE, data |-> <<>>]
NoArrival == Arrival("none", NoBody)

InitLedger ==
    /\ phase = "boot"
    /\ chain = <<>>
    /\ lists = <<>>
    /\ current_transactions = 0
    /\ file = NoFile
    /\ clock = 1
    /\ ntx = 0
    /\ th = [t \in Threads |-> IdleThread]
    /\ response = NoResponse
    /\ arrival = NoArrival
    /\ acked = {}
    /\ nreq = 0

BgOff == [pc |-> "off", snap |-> <<>>, failed |-> FALSE]
SigOff == [pc |-> "none", snap |-> <<>>]
NoDump == [exists |-> FALSE, data |-> [pending |-> <<>>, confirmed |-> <<>>]]
NoRead == [kind |-> "none", body |-> <<>>, ids |-> <<>>, nreq |-> 0]
NoPrior == [runs |-> 0, chain |-> <<>>, pending |-> <<>>, synced |-> FALSE]

\* no background thread, no signal, no read yet, no earlier run
InitExtras ==
    /\ bg = BgOff
    /\ shutdown_event = FALSE
    /\ sig = SigOff
    /\ dump = NoDump
    /\ read_result = NoRead
    /\ prior = NoPrior

PwOff == [phase |-> "off", last_proof |-> 0, proof |-> 0, round |-> 0]
RtOff == [phase |-> "off", original |-> <<>>]

Server(threaded, budget) == [threaded |-> threaded, budget |-> budget]

Init ==
    /\ server = Server(TRUE, MaxRequests)
    /\ InitLedger /\ InitExtras /\ pw = PwOff /\ rt = RtOff

Arrive(t) ==
    \/ mine_block_reject(t)
    \/ mine_block_start(t)
    \/ new_transaction_reject(t)
    \/ new_transaction_start(t)

Run(t) ==
    \/ nt_load(t)
    \/ nt_append(t)
    \/ nt_return(t)
    \/ save_open(t)
    \/ save_write(t)
    \/ nb_index(t)
    \/ nb_txs(t)
    \/ nb_reset(t)
    \/ nb_append(t)
    \/ mine_respond(t)

Next ==
    \/ Construct
    \/ \E t \in Threads : Arrive(t)
    \/ \E t \in Threads : Run(t)

\* requests handled by concurrent threads (the server's threaded mode)
Spec == Init /\ [][Next]_vars

InitSeq ==
    /\ server = Server(FALSE, MaxSeqRequests)
    /\ InitLedger /\ InitExtras /\ pw = PwOff /\ rt = RtOff

\* one request at a time: a request arrives only when none is running
SpecSeq == InitSeq /\ [][Next]_vars

InitBurst ==
    /\ server = Server(TRUE, MaxBurstRequests)
    /\ InitLedger /\ InitExtras /\ pw = PwOff /\ rt = RtOff

\* the threaded server followed over one more request
SpecBurst == InitBurst /\ [][Next]_vars

----------------------------------------------------------------------------
(* GET /chain and GET /transactions *)

RECURSIVE confirmed_from(_, _, _)
\* [tx for block in self.chain for tx in block.transactions], from block k on
confirmed_from(ch, heap, k) ==
    IF k > Len(ch) THEN <<>>
    ELSE heap[ch[k].transactions] \o confirmed_from(ch, heap, k + 1)

\* Blockchain.get_confirmed_transactions, before to_dict
get_confirmed_transactions(ch, heap) == confirmed_from(ch, heap, 1)

\* Blockchain.get_pending_transactions, before to_dict
get_pending_transactions(cur, heap) == heap[cur]

\* the identities of the Transaction objects of a list
tx_ids(txs) == [i \in 1..Len(txs) |-> txs[i].id]

Response200 == [NoResponse EXCEPT !.status = 200]

\* line 194: [block.to_dict() for block in blockchain.chain]
full_chain_start(t) ==
    /\ Spawn(t)
    /\ arrival' = Arrival("chain", NoBody)
    /\ th' = [th EXCEPT ![t] =
                [IdleThread EXCEPT !.pc = "fc_len", !.kind = "chain",
                                   !.got = chain_data(chain, lists)]]
    /\ UNCHANGED <<server, phase, ledger, clock, ntx, response, acked, nreq, harness>>

\* lines 195-197: len(blockchain.chain), and the answer
fc_len(t) ==
    /\ th[t].pc = "fc_len"
    /\ read_result' = [kind |-> "chain",
                       body |-> [chain |-> th[t].got, length |-> Len(chain)],
                       ids |-> <<>>,
                       nreq |-> nreq]
    /\ response' = Response200
    /\ th' = [th EXCEPT ![t] = IdleThread]
    /\ UNCHANGED <<server, phase, ledger, clock, ntx, arrival, acked, nreq, pw, rt,
                   bg, shutdown_event, sig, dump, prior>>

\* lines 187, 129: the "pending" entry of the dict is evaluated first
get_transactions_start(t) ==
    /\ Spawn(t)
    /\ arrival' = Arrival("logs", NoBody)
    /\ th' = [th EXCEPT ![t] =
                [IdleThread EXCEPT !.pc = "gt_confirmed", !.kind = "logs",
                                   !.got = get_pending_transactions(
                                               current_transactions, lists)]]
    /\ UNCHANGED <<server, phase, ledger, clock, ntx, response, acked, nreq, harness>>

\* variant: answering also empties the pending list
gt_confirmed_clear(t) ==
    /\ th[t].pc = "gt_confirmed"
    /\ LET confirmed == get_confirmed_transactions(chain, lists)
       IN  read_result' = [kind |-> "logs",
                           body |-> [pending |-> txs_data(th[t].got),
                                     confirmed |-> txs_data(confirmed)],
                           ids |-> [pending |-> tx_ids(th[t].got),
                                    confirmed |-> tx_ids(confirmed)],
                           nreq |-> nreq]
    /\ lists' = [lists EXCEPT ![current_transactions] = <<>>]
    /\ response' = Response200
    /\ th' = [th EXCEPT ![t] = IdleThread]
    /\ UNCHANGED <<server, phase, chain, current_transactions, file, clock, ntx,
                   arrival, acked, nreq, pw, rt,
                   bg, shutdown_event, sig, dump, prior>>

\* lines 130, 188: the "confirmed" entry, and the answer
gt_confirmed(t) ==
    /\ th[t].pc = "gt_confirmed"
    /\ LET confirmed == get_confirmed_transactions(chain, lists)
       IN  read_result' = [kind |-> "logs",
                           body |-> [pending |-> txs_data(th[t].got),
                                     confirmed |-> txs_data(confirmed)],
                           ids |-> [pending |-> tx_ids(th[t].got),
                                    confirmed |-> tx_ids(confirmed)],
                           nreq |-> nreq]
    /\ response' = Response200
    /\ th' = [th EXCEPT ![t] = IdleThread]
    /\ UNCHANGED <<server, phase, ledger, clock, ntx, arrival, acked, nreq, pw, rt,
                   bg, shutdown_event, sig, dump, prior>>

Read(t) ==
    \/ full_chain_start(t)
    \/ fc_len(t)
    \/ get_transactions_start(t)
    \/ gt_confirmed(t)

NextRead ==
    \/ Next
    \/ \E t \in Threads : Read(t)

InitRead ==
    /\ server = Server(TRUE, MaxReadRequests)
    /\ InitLedger /\ InitExtras /\ pw = PwOff /\ rt = RtOff

\* the threaded server with the two reading handlers
SpecRead == InitRead /\ [][NextRead]_vars

InitReadSeq ==
    /\ server = Server(FALSE, MaxReadSeqRequests)
    /\ InitLedger /\ InitExtras /\ pw = PwOff /\ rt = RtOff

\* the reading handlers on the server that runs one request at a time
SpecReadSeq == InitReadSeq /\ [][NextRead]_vars

----------------------------------------------------------------------------
(* The background thread save_periodically and the signal handler *)

\* Blockchain.get_full_transaction_logs as dump_all_to_file writes it
dump_data(ch, heap, cur) ==
    [pending |-> txs_data(get_pending_transactions(cur, heap)),
     confirmed |-> txs_data(get_confirmed_transactions(ch, heap))]

\* what the background thread leaves alone in every step
bg_frame ==
    <<server, chain, lists, current_transactions, clock, ntx, th, response,
      arrival, acked, nreq, pw, rt, sig, read_result, prior>>

\* line 201: while not shutdown_event.is_set()
bg_while ==
    /\ phase = "running" /\ bg.pc = "while"
    /\ bg' = [bg EXCEPT !.pc = IF shutdown_event THEN "done" ELSE "sleep_call"]
    /\ UNCHANGED <<bg_frame, phase, file, dump, shutdown_event>>

\* line 202: time.sleep(interval) is entered
bg_sleep ==
    /\ phase = "running" /\ bg.pc = "sleep_call"
    /\ bg' = [bg EXCEPT !.pc = "sleeping"]
    /\ UNCHANGED <<bg_frame, phase, file, dump, shutdown_event>>

\* line 202: the interval has passed
bg_wake ==
    /\ phase = "running" /\ bg.pc = "sleeping"
    /\ bg' = [bg EXCEPT !.pc = "if"]
    /\ UNCHANGED <<bg_frame, phase, file, dump, shutdown_event>>

\* lines 203-204: if shutdown_event.is_set(): break
bg_if ==
    /\ phase = "running" /\ bg.pc = "if"
    /\ bg' = [bg EXCEPT !.pc = IF shutdown_event THEN "done" ELSE "save"]
    /\ UNCHANGED <<bg_frame, phase, file, dump, shutdown_event>>

\* line 205, lines 92-93: open(filename, "w") succeeds and truncates
bg_save_open ==
    /\ phase = "running" /\ bg.pc = "save"
    /\ file' = [exists |-> TRUE, data |-> <<>>]
    /\ bg' = [bg EXCEPT !.pc = "save_write", !.snap = save_data(chain, lists)]
    /\ UNCHANGED <<bg_frame, phase, dump, shutdown_event>>

\* line 205, line 92: open raises OSError; neither save_to_file nor
\* save_periodically catches it, so the thread ends with the exception
bg_save_fail ==
    /\ phase = "running" /\ bg.pc = "save"
    /\ bg' = [bg EXCEPT !.pc = "dead", !.failed = TRUE]
    /\ UNCHANGED <<bg_frame, phase, file, dump, shutdown_event>>

\* line 94 and the close
bg_save_write ==
    /\ phase = "running" /\ bg.pc = "save_write"
    /\ file' = [exists |-> TRUE, data |-> file_write(file.data, bg.snap)]
    /\ bg' = [bg EXCEPT !.pc = "dump", !.snap = <<>>]
    /\ UNCHANGED <<bg_frame, phase, dump, shutdown_event>>

\* line 206: blockchain.dump_all_to_file(), then back to the loop head
bg_dump ==
    /\ phase = "running" /\ bg.pc = "dump"
    /\ dump' = [exists |-> TRUE,
                data |-> dump_data(chain, lists, current_transactions)]
    /\ bg' = [bg EXCEPT !.pc = "while"]
    /\ UNCHANGED <<bg_frame, phase, file, shutdown_event>>

\* what the signal handler leaves alone in every step but the exit
sig_frame ==
    <<server, chain, lists, current_transactions, clock, ntx, response,
      arrival, acked, nreq, pw, rt, bg, read_result, prior>>

\* SIGINT or SIGTERM is delivered: lines 210-211, save_to_file opens the file
signal_handler ==
    /\ phase = "running" /\ sig.pc = "none"
    /\ file' = [exists |-> TRUE, data |-> <<>>]
    /\ sig' = [pc |-> "save_write", snap |-> save_data(chain, lists)]
    /\ UNCHANGED <<sig_frame, th, phase, dump, shutdown_event>>

\* line 211: line 94 and the close
sig_save_write ==
    /\ phase = "running" /\ sig.pc = "save_write"
    /\ file' = [exists |-> TRUE, data |-> file_write(file.data, sig.snap)]
    /\ sig' = [pc |-> "dump", snap |-> <<>>]
    /\ UNCHANGED <<sig_frame, th, phase, dump, shutdown_event>>

\* line 212: blockchain.dump_all_to_file()
sig_dump ==
    /\ phase = "running" /\ sig.pc = "dump"
    /\ dump' = [exists |-> TRUE,
                data |-> dump_data(chain, lists, current_transactions)]
    /\ sig' = [sig EXCEPT !.pc = "set"]
    /\ UNCHANGED <<sig_frame, th, phase, file, shutdown_event>>

\* line 213: shutdown_event.set()
sig_set ==
    /\ phase = "running" /\ sig.pc = "set"
    /\ shutdown_event' = TRUE
    /\ sig' = [sig EXCEPT !.pc = "join"]
    /\ UNCHANGED <<sig_frame, th, phase, file, dump>>

\* lines 214-216: thread.join(timeout=2) returns, because the background
\* thread ended or because the two seconds passed, and sys.exit(0) ends the
\* process with its daemon threads
sig_exit ==
    /\ phase = "running" /\ sig.pc = "join"
    /\ phase' = "exited"
    /\ sig' = [sig EXCEPT !.pc = "done"]
    /\ th' = [t \in Threads |-> IdleThread]
    /\ UNCHANGED <<sig_frame, file, dump, shutdown_event>>

Background ==
    \/ bg_while
    \/ bg_sleep
    \/ bg_wake
    \/ bg_if
    \/ bg_save_open
    \/ bg_save_fail
    \/ bg_save_write
    \/ bg_dump

Signal ==
    \/ signal_handler
    \/ sig_save_write
    \/ sig_dump
    \/ sig_set
    \/ sig_exit

NextBg ==
    \/ Next
    \/ Background
    \/ Signal

\* line 225: the thread is started when the module has been loaded
BgStarted == [pc |-> "while", snap |-> <<>>, failed |-> FALSE]

InitBg ==
    /\ server = Server(TRUE, MaxBgRequests)
    /\ InitLedger /\ pw = PwOff /\ rt = RtOff
    /\ bg = BgStarted
    /\ shutdown_event = FALSE
    /\ sig = SigOff
    /\ dump = NoDump
    /\ read_result = NoRead
    /\ prior = NoPrior

\* the threaded server with its background thread and a termination signal
SpecBg == InitBg /\ [][NextBg]_vars

----------------------------------------------------------------------------
(* Proof of work on its own: proof_of_work applied to bounded inputs, and to
   its own result as successive mine calls do (lines 150-151) *)

LastProofs == (0..MaxLastProof) \cup {GenesisProof}

InitPoW ==
    /\ server = Server(TRUE, 0)
    /\ InitLedger /\ InitExtras
    /\ rt = RtOff
    /\ pw \in {[phase |-> "in", last_proof |-> lp, proof |-> 0, round |-> 0] :
                 lp \in LastProofs}

pow_call ==
    /\ pw.phase = "in"
    /\ pw' = [pw EXCEPT !.phase = "out", !.proof = proof_of_work(pw.last_proof)]
    /\ UNCHANGED <<server, phase, ledger, clock, ntx, th, response, arrival,
                   acked, nreq, rt, extras>>

pow_again ==
    /\ pw.phase = "out"
    /\ pw.round < MaxPowRounds
    /\ pw' = [phase |-> "in", last_proof |-> pw.proof, proof |-> 0,
              round |-> pw.round + 1]
    /\ UNCHANGED <<server, phase, ledger, clock, ntx, th, response, arrival,
                   acked, nreq, rt, extras>>

NextPoW == pow_call \/ pow_again

SpecPoW == InitPoW /\ [][NextPoW]_vars

----------------------------------------------------------------------------
(* Save and load on their own: save_to_file applied to bounded chains, then
   load_from_file on a new Blockchain object *)

RTTxAB == [sender |-> "A", recipient |-> "B", amount |-> 10]
RTTxReward == [sender |-> RewardSender, recipient |-> "bob", amount |-> RewardAmount]
RTBlock0 ==
    [index |-> 1, timestamp |-> 5, transactions |-> <<>>, proof |-> GenesisProof,
     previous_hash |-> GenesisPreviousHash]

\* block dicts that differ from RTBlock0 in one field each
RTBlocks ==
    {RTBlock0,
     [RTBlock0 EXCEPT !.index = 2],
     [RTBlock0 EXCEPT !.timestamp = 6],
     [RTBlock0 EXCEPT !.proof = 8],
     [RTBlock0 EXCEPT !.previous_hash = "sha256{index: 1}"],
     [RTBlock0 EXCEPT !.transactions = <<RTTxAB>>],
     [RTBlock0 EXCEPT !.transactions = <<RTTxAB, RTTxReward>>],
     [RTBlock0 EXCEPT !.transactions = <<RTTxReward, RTTxAB>>]}

RTChains == UNION {[1..n -> RTBlocks] : n \in 1..MaxRTBlocks}

\* the objects of a chain whose dict form is data: block k holds list k
rt_lists(data) ==
    [k \in 1..Len(data) |->
        [i \in 1..Len(data[k].transactions) |->
            Transaction(10 * k + i, data[k].transactions[i].sender,
                        data[k].transactions[i].recipient,
                        data[k].transactions[i].amount)]]

rt_chain(data) ==
    [k \in 1..Len(data) |->
        Block(data[k].index, data[k].timestamp, k, data[k].proof,
              data[k].previous_hash)]

InitRT ==
    /\ server = Server(TRUE, 0)
    /\ phase = "running"
    /\ \E data \in RTChains :
         /\ chain = rt_chain(data)
         /\ lists = Append(rt_lists(data), <<>>)
         /\ current_transactions = Len(data) + 1
    /\ file = NoFile
    /\ clock = 1
    /\ ntx = 0
    /\ th = [t \in Threads |-> IdleThread]
    /\ response = NoResponse
    /\ arrival = NoArrival
    /\ acked = {}
    /\ nreq = 0
    /\ pw = PwOff
    /\ InitExtras
    /\ rt = [phase |-> "made", original |-> <<>>]

\* blockchain.save_to_file()
rt_save ==
    /\ rt.phase = "made"
    /\ file' = [exists |-> TRUE, data |-> save_data(chain, lists)]
    /\ rt' = [phase |-> "saved", original |-> chain_data(chain, lists)]
    /\ UNCHANGED <<server, phase, chain, lists, current_transactions, clock, ntx,
                   th, response, arrival, acked, nreq, pw, extras>>

\* a new object: self.chain = [], self.current_transactions = [], load_from_file
rt_load ==
    /\ rt.phase = "saved"
    /\ LET loaded == load_from_file(file, [chain |-> <<>>, lists |-> << <<>> >>,
                                           ntx |-> 0])
       IN  /\ chain' = loaded.chain
           /\ lists' = loaded.lists
           /\ current_transactions' = 1
           /\ ntx' = loaded.ntx
    /\ rt' = [rt EXCEPT !.phase = "loaded"]
    /\ UNCHANGED <<server, phase, file, clock, th, response, arrival, acked,
                   nreq, pw, extras>>

NextRT == rt_save \/ rt_load

SpecRT == InitRT /\ [][NextRT]_vars

----------------------------------------------------------------------------
(* Restart: the process ends at any point and the module is loaded again,
   finding the file the previous run left; and first starts on files that a
   writer left damaged *)

\* the process ends (exit, kill, power loss): its memory and threads are
\* gone, the file stays as it is
stop ==
    /\ phase = "running"
    /\ prior.runs < MaxRestarts
    /\ prior' = [runs |-> prior.runs + 1,
                 chain |-> chain_data(chain, lists),
                 pending |-> txs_data(lists[current_transactions]),
                 synced |-> file.exists /\ file.data = save_data(chain, lists)]
    /\ phase' = "boot"
    /\ chain' = <<>>
    /\ lists' = <<>>
    /\ current_transactions' = 0
    /\ th' = [t \in Threads |-> IdleThread]
    /\ UNCHANGED <<server, file, clock, ntx, response, arrival, acked, nreq, pw, rt,
                   bg, shutdown_event, sig, dump, read_result>>

\* the text of a saved chain of two blocks, and of its first block alone
BootChain == <<RTBlock0, [RTBlock0 EXCEPT !.index = 2, !.transactions = <<RTTxAB>>]>>
GoodText == json_dump(BootChain)
ShortText == json_dump(<<RTBlock0>>)

\* a block object written without its "proof"
MissingProofText ==
    << Punct("["), Punct("{"),
       Str("index"), Num(1),
       Str("timestamp"), Num(5),
       Str("transactions"), Punct("["), Punct("]"),
       Str("previous_hash"), Str(GenesisPreviousHash),
       Punct("}"), Punct("]") >>

\* file contents that cannot be loaded: a write cut short at any point
\* (the empty file that open(filename, "w") leaves included), a shorter text
\* written over a longer one, and an object that misses a key
UnreadableData ==
    {SubSeq(GoodText, 1, n) : n \in 0..(Len(GoodText) - 1)}
    \cup {file_write(GoodText, ShortText)}
    \cup {MissingProofText}

BootFiles ==
    {NoFile} \cup {[exists |-> TRUE, data |-> d] :
                     d \in UnreadableData \cup {GoodText, ShortText}}

InitRestart ==
    /\ server = Server(FALSE, MaxRestartRequests)
    /\ phase = "boot"
    /\ chain = <<>>
    /\ lists = <<>>
    /\ current_transactions = 0
    /\ file \in BootFiles
    /\ clock = 1
    /\ ntx = 0
    /\ th = [t \in Threads |-> IdleThread]
    /\ response = NoResponse
    /\ arrival = NoArrival
    /\ acked = {}
    /\ nreq = 0
    /\ InitExtras /\ pw = PwOff /\ rt = RtOff

NextRestart ==
    \/ Next
    \/ stop

\* the one-at-a-time server, stopped and started again
SpecRestart == InitRestart /\ [][NextRestart]_vars

----------------------------------------------------------------------------
(* Properties *)

pending == lists[current_transactions]

\* the transaction list of the block at position k, as it is now
block_txs(k) == lists[chain[k].transactions]

\* C1: the block at chain position k (1-based) has index k, whatever the
\* interleaving of mine and submit requests; so two overlapping mine calls on
\* a chain of length 1 append the indexes 2 and 3, never 2 twice.
C1_IndexIsPosition == \A k \in 1..Len(chain) : chain[k].index = k

\* C2: every block at position i > 1 has previous_hash equal to the digest of
\* the block at position i-1 of the chain.
C2_PreviousHashLinks ==
    \A i \in 2..Len(chain) : chain[i].previous_hash = hash(chain[i - 1], lists)

\* the places where the Transaction object id occurs: in the pending pool and
\* in the transaction lists of the blocks of the chain
Occurrences(id) ==
    {<<0, i>> : i \in {j \in 1..Len(pending) : pending[j].id = id}}
    \cup UNION {{<<k, i>> : i \in {j \in 1..Len(block_txs(k)) : block_txs(k)[j].id = id}} :
                k \in 1..Len(chain)}

\* C3: every transaction whose submit has been answered occurs exactly once in
\* the pending pool together with the transaction lists of all blocks. Stated
\* for the states in which no request is running, so that a transaction on
\* its way from the pool into a block does not count as lost.
C3_NoTxLostOrDuplicated ==
    NoRequestRunning => \A a \in acked : Cardinality(Occurrences(a.id)) = 1

\* C5: the block number told by submit ("Transaction will be added to Block
\* N") is the index of the block in which that transaction is sealed.
C5_ToldBlockIsSealingBlock ==
    \A a \in acked : \A o \in Occurrences(a.id) :
        o[1] > 0 => chain[o[1]].index = a.n

\* the dict of the reward transaction of a mine request with this body
reward_dict(values) ==
    [sender |-> RewardSender, recipient |-> values["name"], amount |-> RewardAmount]

\* C4: a mine request with a name that runs with no other request interleaved
\* appends exactly one block: index = previous chain length + 1, previous_hash
\* = digest of the previous last block, transactions = the transactions
\* pending before the call, in order, followed by the reward transaction;
\* the pending pool is empty afterwards. (The step is the handler's return;
\* th[t].pre is the state the request arrived in.)
C4_MineAppendsOneBlock ==
    [][\A t \in Threads :
         (th[t].pc = "mine_respond" /\ th'[t].pc = "idle") =>
            LET pre == th[t].pre
                n == Len(pre.chain)
                new == chain'[n + 1]
                txs == lists'[new.transactions]
            IN  /\ Len(chain') = n + 1
                /\ SubSeq(chain_data(chain', lists'), 1, n) = pre.chain
                /\ new.index = n + 1
                /\ new.previous_hash = pre.last
                /\ Len(txs) = Len(pre.pending) + 1
                /\ SubSeq(txs, 1, Len(pre.pending)) = pre.pending
                /\ Transaction_to_dict(txs[Len(txs)]) = reward_dict(th[t].values)
                /\ lists'[current_transactions'] = <<>>
                /\ response'.status = 201
      ]_vars

\* reached: a mine request answered on the one-at-a-time server, its block
\* holding a transaction submitted before it and the reward
C4_Witness ==
    /\ ~server.threaded /\ NoRequestRunning
    /\ arrival.kind = "mine" /\ response.status = 201
    /\ Len(response.transactions) = 2
    /\ Len(chain) = 2 /\ Len(block_txs(2)) = 2

\* C6: initialized with no persisted chain file, the chain is exactly one
\* genesis block (index 1, proof 100, previous_hash "1", no transactions) and
\* the pending pool is empty; after initialization the chain is never empty.
C6_GenesisOnInit ==
    phase = "running" =>
        /\ Len(chain) >= 1
        /\ nreq = 0 =>
             /\ Len(chain) = 1
             /\ chain[1].index = 1
             /\ chain[1].proof = 100
             /\ chain[1].previous_hash = "1"
             /\ block_txs(1) = <<>>
             /\ pending = <<>>

\* reached: the service constructed, no request accepted yet
C6_Witness == phase = "running" /\ nreq = 0 /\ Len(chain) = 1 /\ file.exists

\* a request that misses a required field
MissingField(a) ==
    \/ a.kind = "mine" /\ "name" \notin DOMAIN a.values
    \/ a.kind = "tx" /\ ~({"sender", "recipient", "amount"} \subseteq DOMAIN a.values)

\* C7: a request that misses a required field is answered 400 and changes
\* nothing: no block, no pool entry, no write of the file, and no thread goes
\* on with it.
C7_RejectChangesNothing ==
    [][(arrival' # arrival /\ MissingField(arrival')) =>
          /\ response'.status = 400
          /\ UNCHANGED <<chain, lists, current_transactions, file, th>>
      ]_vars

\* reached: a rejected request, arrived when a block had been mined and a
\* transaction was pending
C7_Witness ==
    /\ MissingField(arrival) /\ response.status = 400
    /\ Len(chain) > 1 /\ Len(pending) > 0

\* C8: submit appends exactly one transaction, with the given sender,
\* recipient and amount, to the tail of the pending pool; the entries pending
\* before keep their positions and the chain (so the confirmed list) is
\* unchanged. (The step is the handler's return, on the one-at-a-time server.)
C8_SubmitAppendsToTail ==
    [][\A t \in Threads :
         (th[t].pc = "nt_return" /\ th[t].kind = "tx" /\ th'[t].pc = "idle") =>
            LET pre == th[t].pre
                pool == lists'[current_transactions']
            IN  /\ Len(pool) = Len(pre.pending) + 1
                /\ SubSeq(pool, 1, Len(pre.pending)) = pre.pending
                /\ Transaction_to_dict(pool[Len(pool)]) =
                      [sender |-> th[t].values["sender"],
                       recipient |-> th[t].values["recipient"],
                       amount |-> th[t].values["amount"]]
                /\ chain_data(chain', lists') = pre.chain
                /\ chain' = chain
      ]_vars

\* reached: a second submit answered, the first still pending before it
C8_Witness ==
    /\ ~server.threaded /\ NoRequestRunning
    /\ arrival.kind = "tx" /\ response.status = 201
    /\ Len(pending) = 2 /\ pending[1].id < pending[2].id

\* C9: for every previous proof, proof_of_work returns p with
\* valid_proof(previous proof, p), and no smaller non-negative integer
\* satisfies the predicate.
C9_FirstValidProof ==
    pw.phase = "out" =>
        /\ valid_proof(pw.last_proof, pw.proof)
        /\ \A q \in 0..(pw.proof - 1) : ~valid_proof(pw.last_proof, q)

\* reached: the search from the genesis proof has returned after iterating
C9_Witness == pw.phase = "out" /\ pw.last_proof = GenesisProof /\ pw.proof > 0

\* C10: loading a saved chain gives the same number of blocks in the same
\* order, each with the same index, timestamp, proof, previous_hash and the
\* same transactions (sender, recipient, amount) in the same order.
C10_SaveLoadRoundTrip ==
    rt.phase = "loaded" =>
        /\ Len(chain) = Len(rt.original)
        /\ \A k \in 1..Len(rt.original) :
             k <= Len(chain) =>
                /\ chain[k].index = rt.original[k].index
                /\ chain[k].timestamp = rt.original[k].timestamp
                /\ chain[k].proof = rt.original[k].proof
                /\ chain[k].previous_hash = rt.original[k].previous_hash
                /\ txs_data(block_txs(k)) = rt.original[k].transactions

\* reached: a loaded chain of a block without transactions and a block with two
C10_Witness ==
    /\ rt.phase = "loaded" /\ Len(chain) = 2
    /\ Len(block_txs(1)) = 0 /\ Len(block_txs(2)) = 2

\* C15: the chain is append-only and an appended block never changes: in
\* every step, each block of the chain keeps its position, its fields and
\* the content of its transaction list, whatever the interleaving of submit
\* and mine requests.
C15_SealedBlocksImmutable ==
    [][\A k \in 1..Len(chain) :
         /\ Len(chain') >= k
         /\ chain'[k] = chain[k]
         /\ lists'[chain[k].transactions] = lists[chain[k].transactions]
      ]_vars

\* C16: the proof of every block at position i > 1 satisfies valid_proof
\* relative to the proof of the block at position i-1, under any interleaving
\* of mine requests.
C16_ProofsValidInChain ==
    \A i \in 2..Len(chain) : valid_proof(chain[i - 1].proof, chain[i].proof)

\* the positions of the reward transactions in a transaction list
RewardPositions(txs) == {i \in 1..Len(txs) : txs[i].sender = RewardSender}

\* C17: the block a mine request appends contains exactly one reward
\* transaction, the one this request created for the name it was given, also
\* when several mine requests overlap. (The step is the append, line 60.)
C17_OneRewardPerMinedBlock ==
    [][\A t \in Threads :
         (th[t].pc = "nb_append" /\ th'[t].pc = "save_open") =>
            LET txs == lists'[chain'[Len(chain')].transactions]
            IN  /\ Cardinality(RewardPositions(txs)) = 1
                /\ \A i \in RewardPositions(txs) :
                     /\ txs[i].id = th[t].tx.id
                     /\ txs[i].recipient = th[t].values["name"]
      ]_vars

\* C18: whenever the service is up and no request (so no save) is in
\* progress, the persisted chain file holds exactly the in-memory chain.
C18_FileHoldsChain ==
    (phase = "running" /\ NoRequestRunning) =>
        /\ file.exists
        /\ file.data = save_data(chain, lists)

\* a step of a reading handler taken by thread t
ReadStep(t) ==
    /\ th'[t] # th[t]
    /\ \/ th[t].pc = "idle" /\ th'[t].pc \in {"fc_len", "gt_confirmed"}
       \/ th[t].pc \in {"fc_len", "gt_confirmed"}

\* C14: get_chain and get_transaction_logs change neither the chain, nor the
\* pending pool, nor the persisted file; and a read answered after a read of
\* the same kind, with no submit or mine accepted in between, returns the
\* same result.
C14_ReadsChangeNothing ==
    [][\A t \in Threads :
         /\ ReadStep(t) => UNCHANGED <<chain, lists, current_transactions, file>>
         /\ (/\ ReadStep(t) /\ th'[t].pc = "idle"
             /\ read_result.kind = read_result'.kind
             /\ read_result.nreq = nreq)
            => read_result'.body = read_result.body
      ]_vars

\* reached: get_transaction_logs answered twice in a row, one transaction
\* pending and one block mined
C14_Witness ==
    /\ ~server.threaded /\ NoRequestRunning
    /\ arrival.kind = "logs" /\ read_result.kind = "logs"
    /\ read_result.nreq = nreq /\ nreq = 2
    /\ Len(read_result.body.pending) = 1
    /\ Len(read_result.body.confirmed) = 1

\* the set of elements of a sequence
Range(f) == {f[i] : i \in DOMAIN f}

\* C19: no transaction is reported both in pending and in confirmed of one
\* get_transaction_logs response, also when a mine request seals the pool
\* while the response is being built.
C19_LogsSnapshotConsistent ==
    read_result.kind = "logs" =>
        Range(read_result.ids.pending) \cap Range(read_result.ids.confirmed) = {}

\* C11: when a save performed by the background task fails, the in-memory
\* chain and pool are unchanged and the task keeps running: it is back at
\* the head of its loop, from where the next interval's save is attempted.
C11_PeriodicSaveFailureTolerated ==
    [][(bg.pc = "save" /\ ~bg.failed /\ bg'.failed) =>
          /\ UNCHANGED <<chain, lists, current_transactions>>
          /\ bg'.pc = "while"
      ]_vars

\* C12: once shutdown_event is set, the background task enters no sleep and
\* starts no periodic save, for every interleaving of the handler with it.
C12_NoCycleAfterStop ==
    [][shutdown_event =>
          /\ ~(bg.pc = "sleep_call" /\ bg'.pc = "sleeping")
          /\ ~(bg.pc = "save" /\ bg'.pc = "save_write")
      ]_vars

\* C13: when the persisted chain file exists but cannot be read or parsed,
\* initialization aborts: there is no chain (so no genesis block in place of
\* the file's content) and the file is left as it was.
C13_LoadFailureIsFatal ==
    [][(phase = "boot" /\ file.exists /\ file.data \in UnreadableData) =>
          /\ phase' = "aborted"
          /\ chain' = <<>>
          /\ file' = file
      ]_vars

\* reached: a restart aborted on the empty file left by a save that the
\* previous run had opened and not written
C13_Witness ==
    /\ phase = "aborted" /\ prior.runs = 1
    /\ file.exists /\ file.data = <<>>
    /\ Len(prior.chain) >= 1

\* C20: after a restart that loads the file the previous run had saved its
\* chain to, the in-memory chain equals that chain, block for block, no
\* genesis block is added, and the pending pool is empty, whatever was
\* pending before.
C20_RestartRestoresSavedChain ==
    [][(phase = "boot" /\ phase' = "running" /\ prior.runs > 0 /\ prior.synced) =>
          /\ Len(chain') = Len(prior.chain)
          /\ chain_data(chain', lists') = prior.chain
          /\ lists'[current_transactions'] = <<>>
      ]_vars

\* reached: restarted from the saved chain of two blocks; the transaction that
\* was pending when the previous run stopped is not in the pool
C20_Witness ==
    /\ phase = "running" /\ prior.runs = 1 /\ prior.synced
    /\ Len(prior.pending) = 1
    /\ Len(chain) = 2 /\ chain_data(chain, lists) = prior.chain
    /\ pending = <<>>

====
